---- MODULE Spec2Model ----
(***************************************************************************)
(* Transactional editing of configuration files (modulix-core-utils).      *)
(*                                                                         *)
(* The module models the transaction manager (transaction/transaction.rs)  *)
(* and the managed file (transaction/file_lock.rs): every Transaction runs *)
(* in its own process; processes interact through the files on disk, the   *)
(* advisory locks (flock) on them, the two lock files of the rebuild       *)
(* protocol and the git repository of the configuration directory.         *)
(*                                                                         *)
(* A file is a sequence of bytes.  A file handle has a cursor: reads and   *)
(* writes start at the cursor and advance it (the handle is opened with    *)
(* read+write, neither append nor truncate).  flock locks belong to the    *)
(* open handle, so two handles on one file exclude each other.             *)
(***************************************************************************)
EXTENDS Naturals, Sequences, FiniteSets, TLC

\* Number of concurrently running transactions (one process each).
NumTx == 2
\* Number of configuration files in the repository.
NumFiles == 1
\* Longest buffer an edit may produce.
MaxBuf == 2
\* Calls (begin, attach, edit, commit, rollback) one process makes.
MaxCalls == 4

Tx == 1 .. NumTx
Files == 1 .. NumFiles
\* Contents a file may have before any transaction runs.
InitContents == {<< >>, <<1>>}
\* Texts an edit may put into the buffer (the empty text is a deletion).
EditTexts == {<< >>, <<2>>}

VARIABLES
    disk,       \* disk[f]: bytes of file f (the working tree)
    head,       \* head[f]: bytes of f in the commit HEAD points to
    index,      \* index[f]: bytes of f staged in the git index
    flock,      \* flock[f]: transactions whose handle holds the lock of f
    queue,      \* holders of LOCK_QUEUE_BUILD_FILE
    lock_build, \* holders of LOCK_BUILD_FILE
    git_repo,   \* git_repo[t]: Transaction.git_repo.is_some()
    list_file,  \* list_file[t]: paths registered in Transaction.list_file
    nix,        \* nix[t][f]: the NixFile of transaction t for path f
    pc,         \* pc[t]: where transaction t is inside its current call
    todo,       \* todo[t]: files the running loop has not visited yet
    arg,        \* arg[t]: the file of the attach call in progress
    success,    \* success[t]: exit status of the rebuild t ran
    ret,        \* ret[t]: result of the last call of t that returned
    snap,       \* snap[t][f]: bytes of f on disk when t attached it (history)
    recorded,   \* recorded[t]: the running commit() created a git commit (history)
    skipped,    \* skipped[t]: the running commit() skipped its rebuild (history)
    pending,    \* transactions that skipped, no rebuild having started since (history)
    ncalls,     \* ncalls[t]: calls made by t
    progress,   \* progress[t]: what the last commit() of t has done so far (history)
    content,    \* the buffer the editing functions work on (file_content)
    options,    \* the Option objects created and not yet used
    last        \* the last editing call: its arguments, the buffer before, its result

vars == << disk, head, index, flock, queue, lock_build, git_repo, list_file,
           nix, pc, todo, arg, success, ret, snap, recorded, skipped, pending,
           ncalls, progress,
           content, options, last >>

shared == << disk, head, index, flock, queue, lock_build, pending >>

\* The state of the editing functions (the buffer and the positions held).
editor == << content, options, last >>

----------------------------------------------------------------------------
(* Files and handles *)

\* NixFile::new
NewNixFile ==
    [file |-> FALSE, off |-> 0, file_content |-> << >>, file_content_old |-> << >>]

\* Read::read_to_string on a handle whose cursor is at off: the bytes from the
\* cursor to the end of the file (appended to the buffer by the caller).
ReadToEnd(d, off) == SubSeq(d, off + 1, Len(d))

\* Write::write on a handle whose cursor is at off: the bytes at
\* off+1 .. off+Len(data) are replaced, the file grows when they reach past its
\* end, and nothing is truncated.
WriteAt(d, off, data) ==
    [i \in 1 .. (IF off + Len(data) > Len(d) THEN off + Len(data) ELSE Len(d)) |->
        IF i > off /\ i <= off + Len(data) THEN data[i - off]
        ELSE IF i <= Len(d) THEN d[i] ELSE 0]

\* String::replace_range(i..j, r)
ReplaceRange(s, i, j, r) == SubSeq(s, 1, i) \o r \o SubSeq(s, j + 1, Len(s))

\* git status with tracked files only: empty iff HEAD, index and working tree agree.
StatusIsEmpty == \A f \in DOMAIN disk : head[f] = index[f] /\ index[f] = disk[f]

\* The call of t returns v: t is back at its caller.
Return(t, v) ==
    /\ pc' = [pc EXCEPT ![t] = "ready"]
    /\ ret' = [ret EXCEPT ![t] = v]
    /\ todo' = [todo EXCEPT ![t] = {}]

\* t starts a call: one more of the calls it may make.
Call(t) ==
    /\ pc[t] = "ready"
    /\ ncalls[t] < MaxCalls
    /\ ncalls' = [ncalls EXCEPT ![t] = @ + 1]

\* A commit() that has flushed and staged no file and run no rebuild.
NoProgress == [flushed |-> {}, staged |-> {}, exit |-> "none"]

\* No editing call has been made.
NoCall == [op |-> "none", n |-> 0]

\* The transactions, their files and the repository after construction.
InitTransactions ==
    /\ disk \in [Files -> InitContents]
    /\ head = disk
    /\ index = disk
    /\ flock = [f \in Files |-> {}]
    /\ queue = {}
    /\ lock_build = {}
    /\ git_repo = [t \in Tx |-> FALSE]
    /\ list_file = [t \in Tx |-> {}]
    /\ nix = [t \in Tx |-> [f \in Files |-> NewNixFile]]
    /\ pc = [t \in Tx |-> "ready"]
    /\ todo = [t \in Tx |-> {}]
    /\ arg = [t \in Tx |-> 0]
    /\ success = [t \in Tx |-> FALSE]
    /\ ret = [t \in Tx |-> "none"]
    /\ snap = [t \in Tx |-> [f \in Files |-> << >>]]
    /\ recorded = [t \in Tx |-> FALSE]
    /\ skipped = [t \in Tx |-> FALSE]
    /\ pending = {}
    /\ ncalls = [t \in Tx |-> 0]
    /\ progress = [t \in Tx |-> NoProgress]

Init ==
    /\ InitTransactions
    /\ content = << >>
    /\ options = {}
    /\ last = NoCall

----------------------------------------------------------------------------
(* Transaction::begin *)

\* Repository::open fails: git_repo keeps its value.
BeginOpenFail(t) ==
    /\ Call(t)
    /\ Return(t, "GitError")
    /\ UNCHANGED << editor, progress, shared, git_repo, list_file, nix, arg, success, snap,
                    recorded, skipped >>

\* The handle is stored before the status is looked at; a dirty tree (tracked
\* or untracked changes) returns GitNotCommitted and leaves the handle set.
Begin(t) ==
    /\ Call(t)
    /\ git_repo' = [git_repo EXCEPT ![t] = TRUE]
    /\ \/ /\ StatusIsEmpty
          /\ Return(t, "Ok")
       \/ /\ ~StatusIsEmpty
          /\ Return(t, "GitNotCommitted")
       \/ Return(t, "GitError")
    /\ UNCHANGED << editor, progress, shared, list_file, nix, arg, success, snap, recorded,
                    skipped >>

----------------------------------------------------------------------------
(* Advisory locks *)

\* File::lock (blocking) and File::try_lock succeed for t when no other handle
\* holds the lock.
CanLock(holders, t) == holders \subseteq {t}

\* File::unlock, and the release that closing (dropping) a handle performs.
Unlock(holders, t) == holders \ {t}

----------------------------------------------------------------------------
(* NixFile::attach_on_transaction *)

\* The two read_to_string calls on the locked handle: the first appends the
\* bytes from the cursor to the end of the file to file_content and leaves the
\* cursor at the end; the second appends what follows that cursor to
\* file_content_old.
AttachRead(n, d) ==
    LET first == ReadToEnd(d, n.off)
        cursor == n.off + Len(first)
    IN  [n EXCEPT !.file_content = @ \o first,
                  !.file_content_old = @ \o ReadToEnd(d, cursor),
                  !.off = cursor]

\* The transaction is idle: TransactionNotBegin, nothing is opened.
AttachNotBegun(t, f) ==
    /\ Call(t)
    /\ f \notin list_file[t]
    /\ ~git_repo[t]
    /\ Return(t, "TransactionNotBegin")
    /\ UNCHANGED << editor, progress, shared, git_repo, list_file, nix, arg, success, snap,
                    recorded, skipped >>

\* The file cannot be opened.
AttachOpenFail(t, f) ==
    /\ Call(t)
    /\ f \notin list_file[t]
    /\ git_repo[t]
    /\ ~nix[t][f].file
    /\ Return(t, "PermissionDenied")
    /\ UNCHANGED << editor, progress, shared, git_repo, list_file, nix, arg, success, snap,
                    recorded, skipped >>

\* The handle is opened (when the NixFile has none) and the call enters
\* File::lock, where it stays until the lock can be taken.
AttachCall(t, f) ==
    /\ Call(t)
    /\ f \notin list_file[t]
    /\ git_repo[t]
    /\ nix' = [nix EXCEPT ![t][f].file = TRUE]
    /\ pc' = [pc EXCEPT ![t] = "a_lock"]
    /\ arg' = [arg EXCEPT ![t] = f]
    /\ UNCHANGED << editor, progress, shared, git_repo, list_file, todo, success, ret, snap,
                    recorded, skipped >>

\* File::lock returns: the lock is held, the content is read, the file is
\* registered with the transaction.  A failing read returns IOError with the
\* lock held and the file not registered.
AttachLock(t) ==
    /\ pc[t] = "a_lock"
    /\ CanLock(flock[arg[t]], t)
    /\ flock' = [flock EXCEPT ![arg[t]] = @ \cup {t}]
    /\ arg' = [arg EXCEPT ![t] = 0]
    /\ \/ /\ nix' = [nix EXCEPT ![t][arg[t]] = AttachRead(@, disk[arg[t]])]
          /\ list_file' = [list_file EXCEPT ![t] = @ \cup {arg[t]}]
          /\ snap' = [snap EXCEPT ![t][arg[t]] = disk[arg[t]]]
          /\ Return(t, "Ok")
       \/ /\ Return(t, "IOError")
          /\ UNCHANGED << nix, list_file, snap >>
    /\ UNCHANGED << editor, progress, disk, head, index, queue, lock_build, pending, git_repo, success,
                    recorded, skipped, ncalls >>

\* File::lock itself fails (not because the lock is held): FailToLock.
AttachLockFail(t) ==
    /\ pc[t] = "a_lock"
    /\ arg' = [arg EXCEPT ![t] = 0]
    /\ Return(t, "FailToLock")
    /\ UNCHANGED << editor, progress, shared, git_repo, list_file, nix, success, snap, recorded,
                    skipped, ncalls >>

----------------------------------------------------------------------------
(* Edits of the buffer: Option::set, Option::set_option_to_default *)

\* An edit that would write the new text through to the file as well.
Edit_WriteThrough(t, f) ==
    /\ Call(t)
    /\ nix[t][f].file
    /\ \E i \in 0 .. Len(nix[t][f].file_content) :
       \E j \in i .. Len(nix[t][f].file_content) :
       \E r \in EditTexts :
          LET new == ReplaceRange(nix[t][f].file_content, i, j, r)
          IN  /\ new # nix[t][f].file_content
              /\ Len(new) <= MaxBuf
              /\ nix' = [nix EXCEPT ![t][f].file_content = new]
              /\ disk' = [disk EXCEPT ![f] = new]
    /\ UNCHANGED << editor, progress, head, index, flock, queue, lock_build, pending,
                    git_repo, list_file, pc, todo, ret, arg, success,
                    snap, recorded, skipped >>

\* An edit needs the handle (get_mut_file_content fails without it) and
\* replaces one range of file_content by a text; nothing else of the NixFile and
\* nothing on disk is touched.
Edit(t, f) ==
    /\ Call(t)
    /\ nix[t][f].file
    /\ \E i \in 0 .. Len(nix[t][f].file_content) :
       \E j \in i .. Len(nix[t][f].file_content) :
       \E r \in EditTexts :
          LET new == ReplaceRange(nix[t][f].file_content, i, j, r)
          IN  /\ new # nix[t][f].file_content
              /\ Len(new) <= MaxBuf
              /\ nix' = [nix EXCEPT ![t][f].file_content = new]
    /\ UNCHANGED << editor, progress, shared, git_repo, list_file, pc, todo, ret, arg, success,
                    snap, recorded, skipped >>

----------------------------------------------------------------------------
(* Transaction::commit *)

\* Leaving a loop over list_file: the next loop starts with every file to visit.
Enter(t, label) ==
    /\ pc' = [pc EXCEPT ![t] = label]
    /\ todo' = [todo EXCEPT ![t] = list_file[t]]

\* One file of a loop is done: stay in the loop, or go on when it was the last.
Step(t, f, next) ==
    IF todo[t] \ {f} = {}
    THEN Enter(t, next)
    ELSE /\ todo' = [todo EXCEPT ![t] = @ \ {f}]
         /\ pc' = pc

CommitNotBegun(t) ==
    /\ Call(t)
    /\ ~git_repo[t]
    /\ Return(t, "TransactionNotBegin")
    /\ UNCHANGED << editor, progress, shared, git_repo, list_file, nix, arg, success, snap,
                    recorded, skipped >>

CommitCall(t) ==
    /\ Call(t)
    /\ git_repo[t]
    /\ recorded' = [recorded EXCEPT ![t] = FALSE]
    /\ skipped' = [skipped EXCEPT ![t] = FALSE]
    /\ Enter(t, IF list_file[t] = {} THEN "c_wait" ELSE "c_flush")
    /\ progress' = [progress EXCEPT ![t] = NoProgress]
    /\ UNCHANGED << editor, shared, git_repo, list_file, nix, arg, success, ret, snap >>

\* NixFile::commit writes file_content through the handle, at its cursor.
FlushWrite(n, d) == WriteAt(d, n.off, n.file_content)

\* NixFile::commit releases the lock of the file once the buffer is written.
FlushUnlock(holders, t) == Unlock(holders, t)

\* First loop of commit(): NixFile::commit of one file, in HashMap order.
Flush(t, f) ==
    /\ pc[t] = "c_flush"
    /\ f \in todo[t]
    /\ disk' = [disk EXCEPT ![f] = FlushWrite(nix[t][f], @)]
    /\ nix' = [nix EXCEPT ![t][f].off = @ + Len(nix[t][f].file_content)]
    /\ flock' = [flock EXCEPT ![f] = FlushUnlock(@, t)]
    /\ Step(t, f, "c_add")
    /\ progress' = [progress EXCEPT ![t].flushed = @ \cup {f}]
    /\ UNCHANGED << editor, head, index, queue, lock_build, pending, git_repo, list_file, arg,
                    success, ret, snap, recorded, skipped, ncalls >>

\* The write fails (PermissionDenied), or the unlock after it (IOError):
\* commit() returns the error at once.
FlushFail(t, f) ==
    /\ pc[t] = "c_flush"
    /\ f \in todo[t]
    /\ \/ /\ Return(t, "PermissionDenied")
          /\ UNCHANGED << disk, nix >>
       \/ /\ disk' = [disk EXCEPT ![f] = FlushWrite(nix[t][f], @)]
          /\ nix' = [nix EXCEPT ![t][f].off = @ + Len(nix[t][f].file_content)]
          /\ Return(t, "IOError")
    /\ UNCHANGED << editor, progress, head, index, flock, queue, lock_build, pending, git_repo, list_file,
                    arg, success, snap, recorded, skipped, ncalls >>

\* Second loop: git_add stages the file as it is on disk.
Stage(t, f) ==
    /\ pc[t] = "c_add"
    /\ f \in todo[t]
    /\ index' = [index EXCEPT ![f] = disk[f]]
    /\ Step(t, f, "c_wait")
    /\ progress' = [progress EXCEPT ![t].staged = @ \cup {f}]
    /\ UNCHANGED << editor, disk, head, flock, queue, lock_build, pending, git_repo, list_file,
                    nix, arg, success, ret, snap, recorded, skipped, ncalls >>

StageFail(t, f) ==
    /\ pc[t] = "c_add"
    /\ f \in todo[t]
    /\ Return(t, "GitError")
    /\ UNCHANGED << editor, progress, shared, git_repo, list_file, nix, arg, success, snap,
                    recorded, skipped, ncalls >>

\* wait_until_clean: true as soon as a poll finds the status empty.
WaitClean(t) ==
    /\ pc[t] = "c_wait"
    /\ StatusIsEmpty
    /\ pc' = [pc EXCEPT ![t] = "c_queue"]
    /\ UNCHANGED << editor, progress, shared, git_repo, list_file, nix, todo, arg, success, ret,
                    snap, recorded, skipped, ncalls >>

\* wait_until_clean: false when the status is still not empty after the timeout.
WaitTimeout(t) ==
    /\ pc[t] = "c_wait"
    /\ ~StatusIsEmpty
    /\ Return(t, "InvalidFile")
    /\ UNCHANGED << editor, progress, shared, git_repo, list_file, nix, arg, success, snap,
                    recorded, skipped, ncalls >>

----------------------------------------------------------------------------
(* Rebuild coordination: the queue lock and the build lock *)

\* A faulty try_lock that never reports WouldBlock (sensitivity of C6).
LockFile_try_lock_Always(holders, t) == TRUE

\* LockFile::try_lock gets the lock unless another holder has it (WouldBlock).
LockFile_try_lock(holders, t) == CanLock(holders, t)

\* A faulty lock that returns without waiting for the holder (sensitivity of C5).
LockFile_lock_NoWait(holders, t) == TRUE

\* LockFile::lock returns with the lock once no other holder has it.
LockFile_lock(holders, t) == CanLock(holders, t)

\* try_lock(LOCK_QUEUE_BUILD_FILE) returns the lock.
TryQueue(t) ==
    /\ pc[t] = "c_queue"
    /\ LockFile_try_lock(queue, t)
    /\ queue' = queue \cup {t}
    /\ pc' = [pc EXCEPT ![t] = "c_build"]
    /\ UNCHANGED << editor, progress, disk, head, index, flock, lock_build, pending, git_repo,
                    list_file, nix, todo, arg, success, ret, snap, recorded,
                    skipped, ncalls >>

\* try_lock returns None: the rebuild and the git commit are skipped, the
\* transaction becomes idle and commit() returns Ok.
SkipRebuild(t) ==
    /\ pc[t] = "c_queue"
    /\ ~LockFile_try_lock(queue, t)
    /\ skipped' = [skipped EXCEPT ![t] = TRUE]
    /\ pending' = pending \cup {t}
    /\ git_repo' = [git_repo EXCEPT ![t] = FALSE]
    /\ Return(t, "Ok")
    /\ UNCHANGED << editor, progress, disk, head, index, flock, queue, lock_build, list_file,
                    nix, arg, success, snap, recorded, ncalls >>

\* try_lock fails with an error other than WouldBlock.
TryQueueFail(t) ==
    /\ pc[t] = "c_queue"
    /\ Return(t, "FailToLock")
    /\ UNCHANGED << editor, progress, shared, git_repo, list_file, nix, arg, success, snap,
                    recorded, skipped, ncalls >>

\* lock(LOCK_BUILD_FILE) returns the lock; until then the call is blocked.
LockBuild(t) ==
    /\ pc[t] = "c_build"
    /\ LockFile_lock(lock_build, t)
    /\ lock_build' = lock_build \cup {t}
    /\ pc' = [pc EXCEPT ![t] = "c_unqueue"]
    /\ UNCHANGED << editor, progress, disk, head, index, flock, queue, pending, git_repo,
                    list_file, nix, todo, arg, success, ret, snap, recorded,
                    skipped, ncalls >>

\* lock(LOCK_BUILD_FILE) fails: commit() returns the error and the queue lock
\* is released with the handle that goes out of scope.
LockBuildFail(t) ==
    /\ pc[t] = "c_build"
    /\ queue' = Unlock(queue, t)
    /\ Return(t, "FailToLock")
    /\ UNCHANGED << editor, progress, disk, head, index, flock, lock_build, pending, git_repo,
                    list_file, nix, arg, success, snap, recorded, skipped,
                    ncalls >>

\* queue.unlock()
UnlockQueue(t) ==
    /\ pc[t] = "c_unqueue"
    /\ queue' = Unlock(queue, t)
    /\ pc' = [pc EXCEPT ![t] = "c_spawn"]
    /\ UNCHANGED << editor, progress, disk, head, index, flock, lock_build, pending, git_repo,
                    list_file, nix, todo, arg, success, ret, snap, recorded,
                    skipped, ncalls >>

\* rebuild_config spawns nixos-rebuild: the rebuild is running.
Spawn(t) ==
    /\ pc[t] = "c_spawn"
    /\ pending' = {}
    /\ pc' = [pc EXCEPT ![t] = "c_run"]
    /\ UNCHANGED << editor, progress, disk, head, index, flock, queue, lock_build, git_repo,
                    list_file, nix, todo, arg, success, ret, snap, recorded,
                    skipped, ncalls >>

\* The spawn fails: commit() returns IOError, the build lock is released with
\* the handle that goes out of scope.
SpawnFail(t) ==
    /\ pc[t] = "c_spawn"
    /\ lock_build' = Unlock(lock_build, t)
    /\ Return(t, "IOError")
    /\ UNCHANGED << editor, progress, disk, head, index, flock, queue, pending, git_repo,
                    list_file, nix, arg, success, snap, recorded, skipped,
                    ncalls >>

\* child.wait() returns the exit status of the rebuild.
RebuildExit(t) ==
    /\ pc[t] = "c_run"
    /\ \E ok \in BOOLEAN :
           /\ success' = [success EXCEPT ![t] = ok]
           /\ progress' = [progress EXCEPT
                             ![t].exit = IF ok THEN "zero" ELSE "nonzero"]
    /\ pc' = [pc EXCEPT ![t] = "c_unbuild"]
    /\ UNCHANGED << editor, shared, git_repo, list_file, nix, todo, arg, ret, snap,
                    recorded, skipped, ncalls >>

\* child.wait() fails: as for a failed spawn.
RebuildWaitFail(t) ==
    /\ pc[t] = "c_run"
    /\ lock_build' = Unlock(lock_build, t)
    /\ Return(t, "IOError")
    /\ UNCHANGED << editor, progress, disk, head, index, flock, queue, pending, git_repo,
                    list_file, nix, arg, success, snap, recorded, skipped,
                    ncalls >>

----------------------------------------------------------------------------
(* Rollback and the git commit *)

\* NixFile::rollback writes file_content_old through the handle, at its cursor.
RollbackWrite(n, d) == WriteAt(d, n.off, n.file_content_old)

\* A faulty end of rollback that keeps the repository handle (sensitivity of
\* C13).
RollbackDone_KeepsOpen(t) ==
    /\ git_repo' = git_repo
    /\ IF pc[t] = "r_rollback"
       THEN Return(t, "Ok")
       ELSE Return(t, "InvalidFile")

\* Transaction::rollback after its loop: the transaction is idle and the call
\* that ran the loop returns (commit() with InvalidFile, rollback() with Ok).
RollbackDone(t) ==
    /\ git_repo' = [git_repo EXCEPT ![t] = FALSE]
    /\ IF pc[t] = "r_rollback"
       THEN Return(t, "Ok")
       ELSE Return(t, "InvalidFile")

\* A faulty branch that goes on to git_commit whatever the exit status
\* (sensitivity of C27).
UnlockBuild_IgnoresStatus(t) ==
    /\ pc[t] = "c_unbuild"
    /\ lock_build' = Unlock(lock_build, t)
    /\ pc' = [pc EXCEPT ![t] = "c_gitcommit"]
    /\ success' = [success EXCEPT ![t] = FALSE]
    /\ UNCHANGED << editor, progress, disk, head, index, flock, queue, pending,
                    list_file, nix, arg, snap, recorded, skipped, ncalls,
                    git_repo, todo, ret >>

\* lock_build.unlock(), then the branch on the exit status: rollback() and
\* InvalidFile when the rebuild failed, git_commit otherwise.
UnlockBuild(t) ==
    /\ pc[t] = "c_unbuild"
    /\ lock_build' = Unlock(lock_build, t)
    /\ IF success[t]
       THEN /\ pc' = [pc EXCEPT ![t] = "c_gitcommit"]
            /\ UNCHANGED << git_repo, todo, ret >>
       ELSE IF list_file[t] = {}
            THEN RollbackDone(t)
            ELSE /\ Enter(t, "c_rollback")
                 /\ UNCHANGED << git_repo, ret >>
    /\ success' = [success EXCEPT ![t] = FALSE]
    /\ UNCHANGED << editor, progress, disk, head, index, flock, queue, pending, list_file, nix,
                    arg, snap, recorded, skipped, ncalls >>

\* Transaction::rollback called by the user.
RollbackNotBegun(t) ==
    /\ Call(t)
    /\ ~git_repo[t]
    /\ Return(t, "TransactionNotBegin")
    /\ UNCHANGED << editor, progress, shared, git_repo, list_file, nix, arg, success, snap,
                    recorded, skipped >>

RollbackCall(t) ==
    /\ Call(t)
    /\ git_repo[t]
    /\ IF list_file[t] = {}
       THEN /\ git_repo' = [git_repo EXCEPT ![t] = FALSE]
            /\ Return(t, "Ok")
       ELSE /\ Enter(t, "r_rollback")
            /\ UNCHANGED << git_repo, ret >>
    /\ UNCHANGED << editor, progress, shared, list_file, nix, arg, success, snap, recorded,
                    skipped >>

\* One file of the loop of Transaction::rollback: NixFile::rollback empties
\* file_content and writes file_content_old.
RollbackFile(t, f) ==
    /\ pc[t] \in {"c_rollback", "r_rollback"}
    /\ f \in todo[t]
    /\ disk' = [disk EXCEPT ![f] = RollbackWrite(nix[t][f], @)]
    /\ nix' = [nix EXCEPT ![t][f].file_content = << >>,
                          ![t][f].off = @ + Len(nix[t][f].file_content_old)]
    /\ IF todo[t] \ {f} = {}
       THEN RollbackDone(t)
       ELSE /\ todo' = [todo EXCEPT ![t] = @ \ {f}]
            /\ UNCHANGED << pc, ret, git_repo >>
    /\ UNCHANGED << editor, progress, head, index, flock, queue, lock_build, pending, list_file,
                    arg, success, snap, recorded, skipped, ncalls >>

\* The write of NixFile::rollback fails: the call returns IOError, the
\* transaction stays open.
RollbackFileFail(t, f) ==
    /\ pc[t] \in {"c_rollback", "r_rollback"}
    /\ f \in todo[t]
    /\ nix' = [nix EXCEPT ![t][f].file_content = << >>]
    /\ Return(t, "IOError")
    /\ UNCHANGED << editor, progress, shared, git_repo, list_file, arg, success, snap, recorded,
                    skipped, ncalls >>

\* git_commit writes the index as a tree and creates a commit of it.  It is
\* called with update_ref = None: no reference is moved, HEAD stays where it is.
GitCommit(t) ==
    /\ pc[t] = "c_gitcommit"
    /\ recorded' = [recorded EXCEPT ![t] = TRUE]
    /\ head' = head
    /\ git_repo' = [git_repo EXCEPT ![t] = FALSE]
    /\ Return(t, "Ok")
    /\ UNCHANGED << editor, progress, disk, index, flock, queue, lock_build, pending, list_file,
                    nix, arg, success, snap, skipped, ncalls >>

GitCommitFail(t) ==
    /\ pc[t] = "c_gitcommit"
    /\ Return(t, "GitError")
    /\ UNCHANGED << editor, progress, shared, git_repo, list_file, nix, arg, success, snap,
                    recorded, skipped, ncalls >>

----------------------------------------------------------------------------
(* End of the objects *)

\* The process is done with its Transaction and its NixFiles: they go out of
\* scope, the handles are closed, which releases the locks they hold.
Drop(t) ==
    /\ pc[t] = "ready"
    /\ flock' = [f \in DOMAIN flock |-> Unlock(flock[f], t)]
    /\ nix' = [nix EXCEPT ![t] = [f \in DOMAIN flock |-> NewNixFile]]
    /\ list_file' = [list_file EXCEPT ![t] = {}]
    /\ git_repo' = [git_repo EXCEPT ![t] = FALSE]
    /\ pc' = [pc EXCEPT ![t] = "done"]
    /\ UNCHANGED << editor, progress, disk, head, index, queue, lock_build, pending, todo, ret,
                    arg, success, snap, recorded, skipped, ncalls >>

----------------------------------------------------------------------------

Next ==
    \E t \in Tx :
        \/ BeginOpenFail(t)
        \/ Begin(t)
        \/ CommitNotBegun(t)
        \/ CommitCall(t)
        \/ WaitClean(t)
        \/ WaitTimeout(t)
        \/ TryQueue(t)
        \/ SkipRebuild(t)
        \/ TryQueueFail(t)
        \/ LockBuild(t)
        \/ LockBuildFail(t)
        \/ UnlockQueue(t)
        \/ Spawn(t)
        \/ SpawnFail(t)
        \/ RebuildExit(t)
        \/ RebuildWaitFail(t)
        \/ UnlockBuild(t)
        \/ GitCommit(t)
        \/ GitCommitFail(t)
        \/ RollbackNotBegun(t)
        \/ RollbackCall(t)
        \/ AttachLock(t)
        \/ AttachLockFail(t)
        \/ Drop(t)
        \/ \E f \in Files :
            \/ AttachNotBegun(t, f)
            \/ AttachOpenFail(t, f)
            \/ AttachCall(t, f)
            \/ Edit(t, f)
            \/ Flush(t, f)
            \/ FlushFail(t, f)
            \/ Stage(t, f)
            \/ StageFail(t, f)
            \/ RollbackFile(t, f)
            \/ RollbackFileFail(t, f)

Spec == Init /\ [][Next]_vars

----------------------------------------------------------------------------
(* Properties *)

\* The places of a transaction inside commit().
CommitPcs ==
    {"c_flush", "c_add", "c_wait", "c_queue", "c_build", "c_unqueue",
     "c_spawn", "c_run", "c_unbuild", "c_gitcommit", "c_rollback"}

\* commit() of t returns v in this step.
CommitReturns(t, v) ==
    /\ pc[t] \in CommitPcs
    /\ pc'[t] = "ready"
    /\ ret'[t] = v

\* C1: when commit() returns InvalidFile after the rebuild it ran exited
\* non-zero, every attached file holds on disk the bytes it had when it was
\* attached.
C1_FailedRebuildRestoresDisk ==
    [][\A t \in Tx :
          (pc[t] \in {"c_unbuild", "c_rollback"} /\ CommitReturns(t, "InvalidFile"))
              => \A f \in list_file[t] : disk'[f] = snap[t][f]]_vars

\* C2: whenever commit() returns an error, the rollback has been done: every
\* attached file holds its bytes of attach time and the transaction is idle.
C2_ErrorMeansRolledBack ==
    [][\A t \in Tx :
          (pc[t] \in CommitPcs /\ pc'[t] = "ready" /\ ret'[t] # "Ok")
              => /\ ~git_repo'[t]
                 /\ \A f \in list_file[t] : disk'[f] = snap[t][f]]_vars

\* C3: while commit() or rollback() of a transaction is running, the
\* transaction holds the lock of every file attached to it.
C3_LockHeldUntilTerminated ==
    \A t \in Tx : \A f \in list_file[t] :
        pc[t] \in CommitPcs \cup {"r_rollback"} => t \in flock[f]

\* C4: no attach waits inside the lock call for a lock that another
\* transaction holds.
C4_AttachNeverBlocks ==
    \A t \in Tx : pc[t] = "a_lock" => CanLock(flock[arg[t]], t)

\* C5: at most one rebuild runs at any instant; a rebuild runs only while its
\* transaction holds the build lock, which has at most one holder.
C5_OneRebuildAtATime ==
    /\ Cardinality({t \in Tx : pc[t] = "c_run"}) <= 1
    /\ Cardinality(lock_build) <= 1
    /\ \A t \in Tx : pc[t] = "c_run" => t \in lock_build

\* A rebuild is running while another transaction waits for the build lock.
C5_Witness ==
    \E t \in Tx : \E u \in Tx : pc[t] = "c_run" /\ pc[u] = "c_build"

\* At most one transaction is inside lock(LOCK_BUILD_FILE), and it holds the
\* queue lock.
OneBuildWaiter ==
    /\ Cardinality({t \in Tx : pc[t] = "c_build"}) <= 1
    /\ \A t \in Tx : pc[t] = "c_build" => t \in queue

\* C6, as stated in the specification: at most one transaction waits for the
\* build lock, it holds the queue lock, and the queue lock is released only by
\* a transaction that has acquired the build lock.
C6_ReleaseOnlyAfterAcquire ==
    /\ [] OneBuildWaiter
    /\ [][\A t \in Tx : (t \in queue /\ t \notin queue') => t \in lock_build]_vars

\* C6, amended: at most one transaction waits for the build lock, it holds
\* the queue lock, and the queue lock is released only by a transaction that
\* has acquired the build lock or whose lock(LOCK_BUILD_FILE) has just failed
\* with an error.
C6_OneWaiterForBuildLock ==
    /\ [] OneBuildWaiter
    /\ [][\A t \in Tx :
             (t \in queue /\ t \notin queue')
                 => \/ t \in lock_build
                    \/ pc[t] = "c_build" /\ CommitReturns(t, "FailToLock")]_vars

\* A transaction holding the queue lock is blocked on the build lock, which
\* another transaction holds.
C6_Witness ==
    \E t \in Tx : \E u \in Tx \ {t} :
        pc[t] = "c_build" /\ t \in queue /\ u \in lock_build

\* C7: as long as a transaction has skipped its rebuild and no rebuild has
\* started since, another transaction is on its way to start one (it holds the
\* queue lock, or has the build lock and is about to spawn the rebuild).
C7_SkippedChangesGetBuilt ==
    pending # {} => \E u \in Tx : pc[u] \in {"c_build", "c_unqueue", "c_spawn"}

\* C8: every commit() that returns Ok has recorded a git commit.
C8_SuccessMeansCommitted ==
    [][\A t \in Tx : CommitReturns(t, "Ok") => recorded'[t]]_vars

\* C9: when attach returns Ok, file_content and file_content_old both hold the
\* bytes of the file on disk.
C9_AttachFillsBothBuffers ==
    [][\A t \in Tx :
          (pc[t] = "a_lock" /\ pc'[t] = "ready" /\ ret'[t] = "Ok")
              => /\ nix'[t][arg[t]].file_content = disk'[arg[t]]
                 /\ nix'[t][arg[t]].file_content_old = disk'[arg[t]]]_vars

\* C10: the flush of a file leaves exactly file_content on disk, the rollback
\* of a file leaves exactly the bytes of attach time.
C10_DiskIsOneOfTheBuffers ==
    [][\A t \in Tx : \A f \in Files :
          /\ Flush(t, f) => disk'[f] = nix[t][f].file_content
          /\ RollbackFile(t, f) => disk'[f] = snap[t][f]]_vars

\* rollback() of t, called by the user, returns v in this step.
RollbackReturns(t, v) ==
    /\ pc[t] = "r_rollback" \/ RollbackCall(t)
    /\ pc'[t] = "ready"
    /\ ret'[t] = v

\* The values a call can return.
Results ==
    {"Ok", "GitError", "GitNotCommitted", "TransactionNotBegin",
     "PermissionDenied", "FailToLock", "IOError", "InvalidFile"}

\* C11: when commit() or rollback() returns, with any result, the transaction
\* holds no lock: neither the queue lock, nor the build lock, nor the lock of
\* any file attached to it.
C11_NoLockAfterReturn ==
    [][\A t \in Tx :
          (\E v \in Results : CommitReturns(t, v) \/ RollbackReturns(t, v))
              => /\ t \notin queue'
                 /\ t \notin lock_build'
                 /\ \A f \in list_file[t] : t \notin flock'[f]]_vars

\* C12: begin() that fails because the working tree is not clean leaves the
\* transaction idle.
C12_DirtyBeginStaysIdle ==
    [][\A t \in Tx :
          (Begin(t) /\ ret'[t] = "GitNotCommitted") => ~git_repo'[t]]_vars

\* A call of t other than begin() and an edit of a buffer, made while t is
\* idle.
IdleCall(t) ==
    /\ pc[t] = "ready"
    /\ ~git_repo[t]
    /\ ncalls'[t] # ncalls[t]
    /\ ~Begin(t)
    /\ ~BeginOpenFail(t)
    /\ ~\E f \in Files : Edit(t, f)

\* The call made on an idle transaction is refused and touches nothing.
IdleCallRefused(t) ==
    IdleCall(t) => /\ pc'[t] = "ready"
                   /\ ret'[t] = "TransactionNotBegin"
                   /\ disk' = disk
                   /\ flock' = flock
                   /\ nix' = nix
                   /\ git_repo' = git_repo

----------------------------------------------------------------------------
(* Syntax view: the tree rnix::Root::parse gives for a buffer *)

\* A buffer is a sequence of one-byte strings.  The documents of the model are
\* written with one-byte keys (a, b, c) and values made of the digits 1 and 2.
Blank == {" ", "\n"}
Letters == {"a", "b", "c"}
Digits == {"1", "2"}

\* The byte at offset o (offsets start at 0), "EOF" past the end.
At(s, o) == IF o < Len(s) THEN s[o + 1] ELSE "EOF"

\* The bytes of the half-open range [a, b).
Slice(s, a, b) == SubSeq(s, a + 1, b)

RECURSIVE SkipBlank(_, _)
SkipBlank(s, o) == IF At(s, o) \in Blank THEN SkipBlank(s, o + 1) ELSE o

RECURSIVE TokenEnd(_, _, _)
TokenEnd(s, o, cs) == IF At(s, o) \in cs THEN TokenEnd(s, o + 1, cs) ELSE o

NoParse == [ok |-> FALSE]

\* F applied to the value of e, which is computed once.
With(e, F(_)) == CHOOSE r \in {F(x) : x \in {e}} : TRUE

\* NODE_ATTRPATH: keys separated by dots.
RECURSIVE ParseAttrPath(_, _, _)
ParseAttrPath(s, o, acc) ==
    IF At(s, o) \notin Letters
    THEN NoParse
    ELSE IF At(s, o + 1) = "."
         THEN ParseAttrPath(s, o + 2, Append(acc, At(s, o)))
         ELSE [ok |-> TRUE, path |-> Append(acc, At(s, o)), end |-> o + 1]

\* The elements of a NODE_LIST up to its closing bracket.
RECURSIVE ParseItems(_, _)
ParseItems(s, o) ==
    IF At(s, o) = "]"
    THEN [ok |-> TRUE, end |-> o]
    ELSE IF At(s, o) \in Letters \cup Digits
         THEN ParseItems(s, SkipBlank(s, TokenEnd(s, o, Letters \cup Digits)))
         ELSE NoParse

RECURSIVE ParseValue(_, _)
RECURSIVE ParseBindings(_, _, _)

\* An expression at offset o: NODE_ATTR_SET, NODE_LIST, NODE_LITERAL,
\* NODE_IDENT or NODE_WITH, with its range [start, end).  The children of a
\* NODE_WITH are its two expressions: the namespace, then the body.
ParseValue(s, o) ==
    CASE At(s, o) = "{" ->
            With(ParseBindings(s, SkipBlank(s, o + 1), << >>), LAMBDA r :
                IF r.ok
                THEN [ok |-> TRUE, end |-> r.end + 1,
                      node |-> [kind |-> "NODE_ATTR_SET", start |-> o,
                                end |-> r.end + 1, children |-> r.children]]
                ELSE NoParse)
      [] At(s, o) = "[" ->
            With(ParseItems(s, SkipBlank(s, o + 1)), LAMBDA r :
                IF r.ok
                THEN [ok |-> TRUE, end |-> r.end + 1,
                      node |-> [kind |-> "NODE_LIST", start |-> o,
                                end |-> r.end + 1]]
                ELSE NoParse)
      [] At(s, o) \in Digits ->
            With(TokenEnd(s, o, Digits), LAMBDA e :
                [ok |-> TRUE, end |-> e,
                 node |-> [kind |-> "NODE_LITERAL", start |-> o, end |-> e]])
      [] At(s, o) \in Letters ->
            [ok |-> TRUE, end |-> o + 1,
             node |-> [kind |-> "NODE_IDENT", start |-> o, end |-> o + 1]]
      [] Slice(s, o, o + 5) = << "w", "i", "t", "h", " " >> ->
            With(ParseValue(s, SkipBlank(s, o + 5)), LAMBDA ns :
              IF ~ns.ok THEN NoParse ELSE
              With(SkipBlank(s, ns.end), LAMBDA z :
                IF At(s, z) # ";" THEN NoParse ELSE
                With(ParseValue(s, SkipBlank(s, z + 1)), LAMBDA body :
                  IF ~body.ok THEN NoParse ELSE
                  [ok |-> TRUE, end |-> body.end,
                   node |-> [kind |-> "NODE_WITH", start |-> o,
                             end |-> body.end,
                             children |-> << ns.node, body.node >>]])))
      [] OTHER -> NoParse

\* The NODE_ATTRPATH_VALUE children of a set, up to its closing brace.
ParseBindings(s, o, acc) ==
    IF At(s, o) = "}"
    THEN [ok |-> TRUE, end |-> o, children |-> acc]
    ELSE With(ParseAttrPath(s, o, << >>), LAMBDA k :
           IF ~k.ok THEN NoParse ELSE
           With(SkipBlank(s, k.end), LAMBDA e :
             IF At(s, e) # "=" THEN NoParse ELSE
             With(ParseValue(s, SkipBlank(s, e + 1)), LAMBDA v :
               IF ~v.ok THEN NoParse ELSE
               With(SkipBlank(s, v.end), LAMBDA z :
                 IF At(s, z) # ";" THEN NoParse ELSE
                 With(<< SkipBlank(s, z + 1),
                         Append(acc, [kind |-> "NODE_ATTRPATH_VALUE",
                                      start |-> o, end |-> z + 1,
                                      path |-> k.path, value |-> v.node]) >>,
                      LAMBDA n : ParseBindings(s, n[1], n[2]))))))

\* rnix::Root::parse: the tree of a buffer that is one expression, NoParse for
\* a buffer that is not.
Parse(s) ==
    With(ParseValue(s, SkipBlank(s, 0)), LAMBDA r :
        IF r.ok /\ SkipBlank(s, r.end) = Len(s) THEN r ELSE NoParse)

----------------------------------------------------------------------------
(* Option locator: SettingsPosition::new *)

\* A dotted path is the sequence of its segments.  The byte length of its
\* text: the segments (one byte each) and the dots between them.
StrLen(path) == IF path = << >> THEN 0 ELSE 2 * Len(path) - 1

\* Option<SettingsPosition>::None.
None == [some |-> FALSE]

\* Some(SettingsPosition { def_option, value_option, option_path }).  Ranges
\* are pairs << start, end >>; value_option = << >> is None and
\* option_path = << >> is None (the exact match).
SettingsPosition(def, value, path) ==
    [some |-> TRUE, def_option |-> def, value_option |-> value,
     option_path |-> path]

\* attr_path is a prefix of settings: not more segments, all of them equal.
IsPrefix(attr_path, settings) ==
    /\ Len(attr_path) <= Len(settings)
    /\ \A i \in 1 .. Len(attr_path) : attr_path[i] = settings[i]

RECURSIVE localise_option(_, _)
RECURSIVE localise_option_node_attr_set(_, _)
RECURSIVE localise_option_node_attrpath_value(_, _)
RECURSIVE ScanChildren(_, _, _, _)
RECURSIVE FirstMatch(_, _, _)

\* The loop of localise_option_node_attr_set over the children from the i-th
\* on: an exact match returns at once; otherwise the first result is kept and
\* replaced by a later one only if the later one's remaining path is longer.
ScanChildren(children, setting, i, best_opt_pos) ==
    IF i > Len(children)
    THEN best_opt_pos
    ELSE With(localise_option(children[i], setting), LAMBDA pos :
           IF ~pos.some
           THEN ScanChildren(children, setting, i + 1, best_opt_pos)
           ELSE IF pos.option_path = << >>
                THEN pos
                ELSE IF ~best_opt_pos.some
                     THEN ScanChildren(children, setting, i + 1, pos)
                     ELSE IF StrLen(pos.option_path)
                                 > StrLen(best_opt_pos.option_path)
                          THEN ScanChildren(children, setting, i + 1, pos)
                          ELSE ScanChildren(children, setting, i + 1,
                                            best_opt_pos))

\* The first match among the children of a node of another kind.
FirstMatch(children, settings, i) ==
    IF i > Len(children)
    THEN None
    ELSE With(localise_option(children[i], settings), LAMBDA found :
             IF found.some THEN found
             ELSE FirstMatch(children, settings, i + 1))

\* Dispatch on the node kind.  Of the other kinds of the model only
\* NODE_WITH has children (list, literal and identifier have none that could
\* match).
localise_option(ast, settings) ==
    CASE ast.kind = "NODE_ATTR_SET" ->
            localise_option_node_attr_set(ast, settings)
      [] ast.kind = "NODE_ATTRPATH_VALUE" ->
            localise_option_node_attrpath_value(ast, settings)
      [] ast.kind = "NODE_WITH" ->
            FirstMatch(ast.children, settings, 1)
      [] OTHER -> None

\* The best match among the children, or the insertion point before the
\* closing brace of this set with the whole path remaining.
localise_option_node_attr_set(ast, setting) ==
    With(ScanChildren(ast.children, setting, 1, None), LAMBDA best_opt_pos :
        IF best_opt_pos.some
        THEN best_opt_pos
        ELSE SettingsPosition(<< ast.end - 1, ast.end - 1 >>, << >>, setting))

\* A binding whose attribute path is a prefix of the path looked for: the
\* search goes on in a nested set with the rest of the path (None when nothing
\* is left of it); for a NODE_WITH the first of its children decides: a list
\* is returned as the value, anything else gives None; any other value is
\* returned as the exact match.
localise_option_node_attrpath_value(ast, settings) ==
    IF ~IsPrefix(ast.path, settings)
    THEN None
    ELSE IF ast.value.kind = "NODE_ATTR_SET"
         THEN IF Len(ast.path) = Len(settings)
              THEN None
              ELSE localise_option_node_attr_set(ast.value,
                       SubSeq(settings, Len(ast.path) + 1, Len(settings)))
         ELSE IF ast.value.kind = "NODE_WITH"
         THEN IF ast.value.children[1].kind = "NODE_LIST"
              THEN SettingsPosition(<< ast.start, ast.end >>,
                                    << ast.value.children[1].start,
                                       ast.value.children[1].end >>, << >>)
              ELSE None
         ELSE SettingsPosition(<< ast.start, ast.end >>,
                               << ast.value.start, ast.value.end >>, << >>)

\* pos_option_in_file: parse the buffer and locate the option in its tree.
\* For a buffer that is no document the search finds no attribute set: None.
pos_option_in_file(file_content, nix_option) ==
    With(Parse(file_content), LAMBDA tree :
        IF tree.ok THEN localise_option(tree.node, nix_option) ELSE None)

----------------------------------------------------------------------------
(* Text mutator: set_option, set_option_to_default *)

\* The width of one indentation step.
TABULATION_SIZE == 2

Spaces(n) == [i \in 1 .. n |-> " "]

\* The nesting depth of the attribute sets around an offset (the root set is 1).
RECURSIVE NestingDepth(_, _)
NestingDepth(node, off) ==
    IF node.kind = "NODE_ATTR_SET" /\ node.start <= off /\ off < node.end
    THEN With({i \in 1 .. Len(node.children) :
                 LET v == node.children[i].value
                 IN  /\ v.kind = "NODE_ATTR_SET"
                     /\ v.start <= off
                     /\ off < v.end},
              LAMBDA inner :
                 IF inner = {}
                 THEN 1
                 ELSE 1 + NestingDepth(
                              node.children[CHOOSE i \in inner : TRUE].value,
                              off))
    ELSE 0

\* SettingsPosition::get_indent_level of a position found in file_content.
get_indent_level(file_content, pos) ==
    With(Parse(file_content), LAMBDA tree :
        NestingDepth(tree.node, pos.def_option[1]))

\* text.chars().nth(i).unwrap_or('\n')
CharOr(text, i) == IF i < Len(text) THEN text[i + 1] ELSE "\n"

\* The loop of count_char_before_newline: every byte back to the previous
\* newline (or the start of the text) is counted, whatever it is.
RECURSIVE CountBack(_, _, _)
CountBack(text, initial_pos, number_char) ==
    IF initial_pos > 0 /\ CharOr(text, initial_pos - 1) # "\n"
    THEN CountBack(text, initial_pos - 1, number_char + 1)
    ELSE number_char

count_char_before_newline(text, initial_pos) == CountBack(text, initial_pos + 1, 0)

\* The block written for the remaining path: one binding, nested sets for
\* the segments before the last, the closing line re-indented.
RECURSIVE write_option(_, _, _)
write_option(path, indent, option_value) ==
    IF path = << >>
    THEN << >>
    ELSE IF Len(path) = 1
         THEN Spaces(TABULATION_SIZE * indent) \o << path[1], " ", "=", " " >>
                  \o option_value \o << ";", "\n" >>
                  \o Spaces(TABULATION_SIZE * (indent - 1))
         ELSE Spaces(TABULATION_SIZE * indent)
                  \o << path[1], " ", "=", " ", "{", "\n" >>
                  \o write_option(Tail(path), indent + 1, option_value)
                  \o << "}", ";", "\n" >>
                  \o Spaces(TABULATION_SIZE * (indent - 1))

\* The buffer after the insertion of a new option at insert_pos: the bytes
\* count_char_before_newline counted are replaced by the block.
InsertOption(file_content, insert_pos, path, level, option_value) ==
    LET indent == IF level > 0 THEN level ELSE 1
        number_previous_indent ==
            count_char_before_newline(file_content, insert_pos - 1)
    IN  ReplaceRange(file_content, insert_pos - number_previous_indent,
                     insert_pos, write_option(path, indent, option_value))

\* set_option up to its write_file: the buffer it leaves and whether it got
\* that far.
set_option(file_content, nix_option, option_value) ==
    With(pos_option_in_file(file_content, nix_option), LAMBDA pos :
        IF ~pos.some
        THEN [ok |-> FALSE, content |-> file_content]
        ELSE IF pos.option_path # << >>
             THEN [ok |-> TRUE,
                   content |-> InsertOption(file_content, pos.def_option[1],
                                   pos.option_path,
                                   get_indent_level(file_content, pos),
                                   option_value)]
             ELSE [ok |-> TRUE,
                   content |-> ReplaceRange(file_content, pos.value_option[1],
                                   pos.value_option[2], option_value)])

\* get_option: the bytes of the value range, an error when the option is not
\* there.
get_option(file_content, nix_option) ==
    With(pos_option_in_file(file_content, nix_option), LAMBDA pos :
        IF pos.some /\ pos.value_option # << >>
        THEN [ok |-> TRUE,
              value |-> Slice(file_content, pos.value_option[1],
                              pos.value_option[2])]
        ELSE [ok |-> FALSE])

\* The loop that removes the spaces, tabs and newlines before pos.
RECURSIVE TrimBefore(_, _)
TrimBefore(text, pos) ==
    IF pos > 0 /\ CharOr(text, pos - 1) \in {" ", "\t", "\n"}
    THEN TrimBefore(ReplaceRange(text, pos - 1, pos, << >>), pos - 1)
    ELSE text

\* The buffer after the removal of a binding and of the blanks before it.
RemoveOption(file_content, def_option) ==
    TrimBefore(ReplaceRange(file_content, def_option[1], def_option[2], << >>),
               def_option[1])

\* set_option_to_default up to its write_file: removed is Ok(true)/Ok(false).
set_option_to_default(file_content, nix_option) ==
    With(pos_option_in_file(file_content, nix_option), LAMBDA pos :
        IF ~pos.some
        THEN [ok |-> FALSE, content |-> file_content, removed |-> FALSE]
        ELSE IF pos.value_option # << >>
             THEN [ok |-> TRUE, removed |-> TRUE,
                   content |-> RemoveOption(file_content, pos.def_option)]
             ELSE [ok |-> TRUE, removed |-> FALSE, content |-> file_content])

----------------------------------------------------------------------------
(* List mutator: get_elem_in_list, add_in_list, remove_in_list *)

\* char::is_ascii_whitespace, as far as the buffers of the model go.
Whitespace == {" ", "\n", "\t"}

str_is_list(list) ==
    /\ Len(list) >= 2
    /\ list[1] = "["
    /\ list[Len(list)] = "]"

\* str::split_ascii_whitespace: the maximal runs of bytes that are not
\* whitespace, in order.
RECURSIVE SplitFrom(_, _, _, _)
SplitFrom(text, i, word, acc) ==
    IF i > Len(text)
    THEN IF word = << >> THEN acc ELSE Append(acc, word)
    ELSE IF text[i] \in Whitespace
         THEN SplitFrom(text, i + 1, << >>,
                        IF word = << >> THEN acc ELSE Append(acc, word))
         ELSE SplitFrom(text, i + 1, Append(word, text[i]), acc)

split_ascii_whitespace(text) == SplitFrom(text, 1, << >>, << >>)

\* The elements of a list text: what is between the brackets, split.
Elements(list) == split_ascii_whitespace(SubSeq(list, 2, Len(list) - 1))

\* get_elem_in_list: the elements of the list the option is bound to.
get_elem_in_list(file_content, nix_list) ==
    With(pos_option_in_file(file_content, nix_list), LAMBDA val_list :
        IF ~val_list.some \/ val_list.value_option = << >>
        THEN [ok |-> FALSE]
        ELSE With(Slice(file_content, val_list.value_option[1],
                        val_list.value_option[2]),
                  LAMBDA list :
                      IF str_is_list(list)
                      THEN [ok |-> TRUE, elems |-> Elements(list)]
                      ELSE [ok |-> FALSE]))

\* str::find from an offset: the offset of the first occurrence of pat in
\* text at or after from, as bytes, wherever it falls (Len(text) for none).
Find(text, from, pat) ==
    With({i \in from .. Len(text) - Len(pat) :
              Slice(text, i, i + Len(pat)) = pat},
         LAMBDA hits :
             IF hits = {} THEN Len(text)
             ELSE CHOOSE i \in hits : \A j \in hits : i <= j)

\* The loop of add_in_list before the closing bracket: pos counts the
\* whitespace bytes passed, newline tells whether a byte that is not
\* whitespace came before a line break.
RECURSIVE ScanBack(_, _)
ScanBack(list, pos) ==
    With(IF pos < Len(list) THEN list[Len(list) - pos] ELSE "none",
         LAMBDA c :
             IF c = "\n"
             THEN [newline |-> FALSE, pos |-> pos - 1]
             ELSE IF c \in Whitespace
                  THEN ScanBack(list, pos + 1)
                  ELSE [newline |-> TRUE, pos |-> pos - 1])

\* The list text with insert_value written before its closing bracket.
InsertElem(list, indent_level, insert_value) ==
    With(ScanBack(list, 1), LAMBDA w :
        SubSeq(list, 1, Len(list) - 1)
            \o (IF w.newline THEN << "\n" >> ELSE << >>)
            \o Spaces(TABULATION_SIZE * (indent_level + 1) - w.pos)
            \o insert_value \o << "\n" >>
            \o Spaces(TABULATION_SIZE * indent_level)
            \o << "]" >>)

\* add_in_list up to the write_file of its set_option: the buffer it leaves
\* and whether it got that far.
add_in_list(file_content, nix_list, insert_value, unique_value_in_list) ==
    With(pos_option_in_file(file_content, nix_list), LAMBDA val_list :
        IF ~val_list.some
        THEN [ok |-> FALSE, content |-> file_content]
        ELSE IF val_list.value_option # << >>
        THEN With(Slice(file_content, val_list.value_option[1],
                        val_list.value_option[2]),
                  LAMBDA list :
                      IF ~str_is_list(list)
                      THEN [ok |-> FALSE, content |-> file_content]
                      ELSE IF \/ ~unique_value_in_list
                              \/ \A i \in DOMAIN Elements(list) :
                                     Elements(list)[i] # insert_value
                           THEN set_option(file_content, nix_list,
                                    InsertElem(list,
                                        get_indent_level(file_content, val_list),
                                        insert_value))
                           ELSE [ok |-> TRUE, content |-> file_content])
        ELSE set_option(file_content, nix_list,
                 << "[", "\n" >>
                     \o Spaces(TABULATION_SIZE * (Len(nix_list) + 1))
                     \o insert_value \o << "\n" >>
                     \o Spaces(TABULATION_SIZE * Len(nix_list))
                     \o << "]" >>))

\* The loop of remove_in_list over the elements: each element is looked for
\* with str::find from _offset, which stays 1 until the element is found.
RECURSIVE FindElem(_, _, _, _)
FindElem(list, elems, i, insert_value) ==
    IF i > Len(elems)
    THEN [found |-> FALSE]
    ELSE IF elems[i] = insert_value
         THEN With(Find(list, 1, elems[i]), LAMBDA st :
                  [found |-> TRUE, start |-> st, end |-> st + Len(elems[i])])
         ELSE FindElem(list, elems, i + 1, insert_value)

\* The loop that removes the whitespace before the removed element.
RECURSIVE TrimAt(_, _)
TrimAt(list, pos) ==
    IF pos > 0 /\ CharOr(list, pos) \in Whitespace /\ pos < Len(list)
    THEN TrimAt(ReplaceRange(list, pos, pos + 1, << >>), pos - 1)
    ELSE list

\* remove_in_list up to the write_file of the call it ends with; changed
\* tells whether it came to rewriting the buffer.
remove_in_list(file_content, nix_list, insert_value) ==
    With(pos_option_in_file(file_content, nix_list), LAMBDA val_list :
        IF ~val_list.some
        THEN [ok |-> FALSE, changed |-> FALSE, content |-> file_content]
        ELSE IF val_list.value_option = << >>
        THEN [ok |-> TRUE, changed |-> FALSE, content |-> file_content]
        ELSE With(Slice(file_content, val_list.value_option[1],
                        val_list.value_option[2]),
                  LAMBDA list :
                      IF ~str_is_list(list)
                      THEN [ok |-> FALSE, changed |-> FALSE,
                            content |-> file_content]
                      ELSE With(FindElem(list, Elements(list), 1, insert_value),
                                LAMBDA f :
                          IF ~f.found
                          THEN [ok |-> TRUE, changed |-> FALSE,
                                content |-> file_content]
                          ELSE IF Len(Elements(list)) = 1
                          THEN [ok |-> TRUE, changed |-> TRUE,
                                content |-> set_option_to_default(
                                                file_content, nix_list).content]
                          ELSE [ok |-> TRUE, changed |-> TRUE,
                                content |-> set_option(file_content, nix_list,
                                    TrimAt(ReplaceRange(list, f.start, f.end,
                                                        << >>),
                                           f.start - 1)).content])))

----------------------------------------------------------------------------
(* The editing calls on one buffer *)

\* Calls that change the buffer, in one behaviour.
MaxEdits == 2

\* Option objects held at one time.
MaxOptions == 2

\* One line.
DocSingleLine ==
    << "{", " ", "a", " ", "=", " ", "1", ";", " ", "}" >>

\* One binding per line.
DocMultiLine ==
    << "{", "\n", " ", " ", "a", " ", "=", " ", "1", ";", "\n", " ", " ",
      "b", " ", "=", " ", "2", ";", "\n", "}", "\n" >>

\* A nested set.
DocNested ==
    << "{", "\n", " ", " ", "a", " ", "=", " ", "{", "\n", " ", " ", " ",
      " ", "b", " ", "=", " ", "1", ";", "\n", " ", " ", "}", ";", "\n",
      "}", "\n" >>

\* A dotted attribute path.
DocDotted ==
    << "{", "\n", " ", " ", "a", ".", "b", " ", "=", " ", "1", ";", "\n",
      "}", "\n" >>

\* Two sets that match prefixes of a.b.c.
DocTwoSets ==
    << "{", "\n", " ", " ", "a", " ", "=", " ", "{", "\n", " ", " ", "}",
      ";", "\n", " ", " ", "a", ".", "b", " ", "=", " ", "{", "\n", " ",
      " ", "}", ";", "\n", "}", "\n" >>

\* A document that is no attribute set.
DocValue ==
    << "1" >>

InitDocuments ==
    {DocSingleLine, DocMultiLine, DocNested, DocDotted, DocTwoSets, DocValue}

\* The paths asked for, the value texts written.
Paths == {<<"a">>, <<"b">>, <<"a", "b">>, <<"a", "c">>, <<"a", "b", "c">>}
Values == {<<"2">>, <<"1", "2">>}

\* The state of the transactions, which the editing calls leave alone.
transactions ==
    << disk, head, index, flock, queue, lock_build, git_repo, list_file, nix,
       pc, todo, arg, success, ret, snap, recorded, skipped, pending, ncalls,
       progress >>

InitEdit ==
    /\ InitTransactions
    /\ disk = [f \in Files |-> << >>]
    /\ content \in InitDocuments
    /\ options = {}
    /\ last = NoCall

\* What a call leaves in last: the call, its arguments, the buffer it found,
\* the position it used and its result; n counts the calls that may change the
\* buffer.
Called(op, path, value, position, result) ==
    [op |-> op, n |-> last.n + 1, path |-> path, value |-> value,
     before |-> content, position |-> position, result |-> result]

\* Option::new: the position of the option in the buffer as it is now is
\* stored in the object.
OptionNew(p) ==
    /\ Cardinality(options) < MaxOptions
    /\ last.n < MaxEdits
    /\ \E pos \in {pos_option_in_file(content, p)} :
           /\ pos.some
           /\ options' = options \cup
                  {[path |-> p, position |-> pos,
                    indent |-> get_indent_level(content, pos)]}
    /\ UNCHANGED << transactions, content, last >>

\* String::replace_range and slicing panic on a range that ends past the text.
InRange(text, range) == range[1] <= range[2] /\ range[2] <= Len(text)

\* Option::set: the value is written at the stored position, whatever the
\* buffer has become since Option::new.  The object is consumed.
OptionSet(o, v) ==
    /\ o \in options
    /\ last.n < MaxEdits
    /\ options' = options \ {o}
    /\ IF o.position.option_path # << >>
       THEN IF InRange(content, o.position.def_option)
            THEN /\ content' = InsertOption(content, o.position.def_option[1],
                                   o.position.option_path, o.indent, v)
                 /\ last' = Called("Option::set", o.path, v, o.position, "Ok")
            ELSE /\ content' = content
                 /\ last' = Called("Option::set", o.path, v, o.position, "panic")
       ELSE IF InRange(content, o.position.value_option)
            THEN /\ content' = ReplaceRange(content, o.position.value_option[1],
                                   o.position.value_option[2], v)
                 /\ last' = Called("Option::set", o.path, v, o.position, "Ok")
            ELSE /\ content' = content
                 /\ last' = Called("Option::set", o.path, v, o.position, "panic")
    /\ UNCHANGED transactions

\* Option::set_option_to_default: the binding at the stored position is
\* removed with the blanks before it; Ok(false) for an option that was not
\* there.  The object is consumed.
OptionClear(o) ==
    /\ o \in options
    /\ last.n < MaxEdits
    /\ options' = options \ {o}
    /\ IF o.position.option_path # << >>
       THEN /\ content' = content
            /\ last' = Called("Option::set_option_to_default", o.path, << >>,
                              o.position, "Ok")
       ELSE IF InRange(content, o.position.def_option)
            THEN /\ content' = RemoveOption(content, o.position.def_option)
                 /\ last' = Called("Option::set_option_to_default", o.path,
                                   << >>, o.position, "Ok")
            ELSE /\ content' = content
                 /\ last' = Called("Option::set_option_to_default", o.path,
                                   << >>, o.position, "panic")
    /\ UNCHANGED transactions

\* set_option of edit_ast: locate in the buffer, rewrite the buffer, then
\* write_file, which succeeds (written) or fails.
SetOption(p, v, written) ==
    /\ last.n < MaxEdits
    /\ Parse(content).ok
    /\ \E r \in {set_option(content, p, v)} :
           /\ content' = r.content
           /\ last' = Called("set_option", p, v,
                             pos_option_in_file(content, p),
                             IF r.ok /\ written THEN "Ok" ELSE "Err")
    /\ UNCHANGED << transactions, options >>

\* set_option_to_default of edit_ast.
SetOptionToDefault(p, written) ==
    /\ last.n < MaxEdits
    /\ Parse(content).ok
    /\ \E r \in {set_option_to_default(content, p)} :
           /\ content' = r.content
           /\ last' = Called("set_option_to_default", p, << >>,
                             pos_option_in_file(content, p),
                             IF r.ok /\ (written \/ ~r.removed)
                             THEN "Ok" ELSE "Err")
    /\ UNCHANGED << transactions, options >>

NextEdit ==
    \/ \E p \in Paths : OptionNew(p)
    \/ \E o \in options : \E v \in Values : OptionSet(o, v)
    \/ \E o \in options : OptionClear(o)
    \/ \E p \in Paths : \E v \in Values : \E written \in BOOLEAN :
           SetOption(p, v, written)
    \/ \E p \in Paths : \E written \in BOOLEAN : SetOptionToDefault(p, written)

SpecEdit == InitEdit /\ [][NextEdit]_vars

\* The calls of the transactional interface alone: Option objects on the
\* buffer of one NixFile.
NextOption ==
    \/ \E p \in Paths : OptionNew(p)
    \/ \E o \in options : \E v \in Values : OptionSet(o, v)
    \/ \E o \in options : OptionClear(o)

SpecOption == InitEdit /\ [][NextOption]_vars

----------------------------------------------------------------------------
(* The list calls on one buffer *)

\* A list on one line, one of whose elements contains another.
DocListSubstring ==
    << "{", "\n", " ", " ", "a", " ", "=", " ", "[", " ", "a", "b", " ",
      "a", " ", "]", ";", "\n", "}", "\n" >>

\* A list on one line.
DocListLine ==
    << "{", "\n", " ", " ", "a", " ", "=", " ", "[", " ", "b", " ", "c",
      " ", "]", ";", "\n", "}", "\n" >>

\* A list of one element.
DocListOne ==
    << "{", "\n", " ", " ", "a", " ", "=", " ", "[", " ", "b", " ", "]",
      ";", "\n", "}", "\n" >>

\* One element per line.
DocListLines ==
    << "{", "\n", " ", " ", "a", " ", "=", " ", "[", "\n", " ", " ", " ",
      " ", "b", "\n", " ", " ", " ", " ", "c", "\n", " ", " ", "]", ";",
      "\n", "}", "\n" >>

\* No option at all.
DocEmptySet ==
    << "{", "\n", "}", "\n" >>

\* Two bindings of the same option, neither a list.
DocTwoBindings ==
    << "{", "\n", " ", " ", "a", " ", "=", " ", "1", ";", "\n", " ", " ",
      "a", " ", "=", " ", "2", ";", "\n", "}", "\n" >>

\* A list in the body of a with expression.
DocWithList ==
    << "{", "\n", " ", " ", "a", " ", "=", " ", "w", "i", "t", "h", " ",
      "c", ";", " ", "[", " ", "b", " ", "]", ";", "\n", "}", "\n" >>

\* A with expression whose body is no list.
DocWithSet ==
    << "{", "\n", " ", " ", "a", " ", "=", " ", "w", "i", "t", "h", " ",
      "c", ";", " ", "{", " ", "}", ";", "\n", "}", "\n" >>

InitListDocuments ==
    {DocListSubstring, DocListLine, DocListOne, DocListLines, DocEmptySet,
     DocTwoBindings, DocWithList, DocWithSet}

\* The lists asked for, the elements added and removed.
ListPaths == {<<"a">>, <<"b">>}
ListElements == {<<"a">>, <<"b">>}

InitList ==
    /\ InitTransactions
    /\ disk = [f \in Files |-> << >>]
    /\ content \in InitListDocuments
    /\ options = {}
    /\ last = NoCall

\* add_in_list of edit_ast: the list text is rewritten and handed to
\* set_option, whose write_file succeeds (written) or fails.
AddInList(p, e, unique_value_in_list, written) ==
    /\ last.n < MaxEdits
    /\ Parse(content).ok
    /\ \E r \in {add_in_list(content, p, e, unique_value_in_list)} :
           /\ content' = r.content
           /\ last' = Called(IF unique_value_in_list
                             THEN "add_in_list_unique" ELSE "add_in_list",
                             p, e, pos_option_in_file(content, p),
                             IF r.ok /\ (written \/ r.content = content)
                             THEN "Ok" ELSE "Err")
    /\ UNCHANGED << transactions, options >>

\* remove_in_list of edit_ast.
RemoveInList(p, e, written) ==
    /\ last.n < MaxEdits
    /\ Parse(content).ok
    /\ \E r \in {remove_in_list(content, p, e)} :
           /\ content' = r.content
           /\ last' = Called("remove_in_list", p, e,
                             pos_option_in_file(content, p),
                             IF r.ok /\ (written \/ ~r.changed)
                             THEN "Ok" ELSE "Err")
    /\ UNCHANGED << transactions, options >>

\* set_option_to_default of edit_ast on the documents of the list calls.
ClearOption(p, written) ==
    /\ p \in ListPaths
    /\ SetOptionToDefault(p, written)

NextList ==
    \/ \E p \in ListPaths : \E e \in ListElements :
           \E unique_value_in_list \in BOOLEAN : \E written \in BOOLEAN :
               AddInList(p, e, unique_value_in_list, written)
    \/ \E p \in ListPaths : \E e \in ListElements : \E written \in BOOLEAN :
           RemoveInList(p, e, written)
    \/ \E p \in ListPaths : \E written \in BOOLEAN : ClearOption(p, written)

SpecList == InitList /\ [][NextList]_vars

----------------------------------------------------------------------------
(* Properties of the locator *)

RECURSIVE BindingPaths(_, _)
\* The full dotted paths of the bindings in an attribute set: the path of
\* each binding after the paths of the sets that enclose it.
BindingPaths(node, prefix) ==
    UNION {{prefix \o node.children[i].path} \cup
           (IF node.children[i].value.kind = "NODE_ATTR_SET"
            THEN BindingPaths(node.children[i].value,
                              prefix \o node.children[i].path)
            ELSE {}) : i \in 1 .. Len(node.children)}

\* The buffer holds a document whose root is an attribute set.
RootSet(tree) == tree.ok /\ tree.node.kind = "NODE_ATTR_SET"

\* What the locator answers: an existing option, or a place to insert.
Existing(pos) == pos.some /\ pos.option_path = << >>
NewInsertion(pos) == pos.some /\ pos.option_path # << >>

\* C14: for every source and dotted path p, the locator answers Existing if
\* and only if the source has a binding whose full dotted path equals p,
\* a binding whose value is an attribute set included, a binding whose path
\* is a strict prefix of p excluded.
C14_ExistingIffBinding ==
    \A t \in {Parse(content)} : RootSet(t) =>
        \A p \in Paths :
            Existing(localise_option(t.node, p))
                <=> p \in BindingPaths(t.node, << >>)

RECURSIVE Candidates(_, _, _)
\* The attribute sets reached through a proper prefix of p, each with the
\* offset of its closing brace and the part of p it leaves unmatched.
Candidates(node, prefix, p) ==
    {[insert_pos |-> node.end - 1,
      residual |-> SubSeq(p, Len(prefix) + 1, Len(p))]} \cup
    UNION {IF /\ node.children[i].value.kind = "NODE_ATTR_SET"
              /\ IsPrefix(prefix \o node.children[i].path, p)
              /\ prefix \o node.children[i].path # p
           THEN Candidates(node.children[i].value,
                           prefix \o node.children[i].path, p)
           ELSE {} : i \in 1 .. Len(node.children)}

\* The candidate with the shortest unmatched part, the first in the source
\* among equals.
Deepest(cands) ==
    CHOOSE c \in cands :
        \A d \in cands :
            \/ Len(c.residual) < Len(d.residual)
            \/ Len(c.residual) = Len(d.residual)
                   /\ c.insert_pos <= d.insert_pos

\* C15: when no binding has path p, the locator answers NewInsertion at the
\* closing brace of the deepest set reached through a proper prefix of p,
\* with the unmatched suffix of p as residual path; of several sets the one
\* that leaves the shortest residual, the first in source order among equals.
C15_DeepestInsertion ==
    \A t \in {Parse(content)} : RootSet(t) =>
        \A p \in Paths : p \notin BindingPaths(t.node, << >>) =>
            \A pos \in {localise_option(t.node, p)} :
                /\ NewInsertion(pos)
                /\ \A c \in {Deepest(Candidates(t.node, << >>, p))} :
                       /\ pos.def_option[1] = c.insert_pos
                       /\ pos.option_path = c.residual

----------------------------------------------------------------------------
(* Properties of set_option *)

\* The last call was set_option of edit_ast on a document whose root is an
\* attribute set.
SetOptionCalled ==
    /\ last.op = "set_option"
    /\ RootSet(Parse(last.before))

\* C16: round trip.  After set_option(s, p, v) on a source with a root
\* attribute set, single-line or multi-line, the buffer parses and
\* get_option for p returns exactly v.
C16_RoundTrip ==
    (SetOptionCalled /\ last.result = "Ok") =>
        /\ Parse(content).ok
        /\ get_option(content, last.path) = [ok |-> TRUE, value |-> last.value]

RECURSIVE WhitespaceRun(_, _)
\* The number of space bytes immediately before offset pos.
WhitespaceRun(text, pos) ==
    IF pos > 0 /\ text[pos] = " "
    THEN 1 + WhitespaceRun(text, pos - 1)
    ELSE 0

\* after is before with the bytes of the range lo .. hi replaced: the bytes
\* before lo and the bytes from hi on are the same, in the same order.
KeepsOutside(before, after, lo, hi) ==
    /\ Len(after) >= lo + (Len(before) - hi)
    /\ SubSeq(after, 1, lo) = SubSeq(before, 1, lo)
    /\ SubSeq(after, Len(after) - (Len(before) - hi) + 1, Len(after))
           = SubSeq(before, hi + 1, Len(before))

\* C17: byte locality of set_option.  For an existing option only the bytes
\* of the value range change; for a new one only the run of whitespace
\* immediately before the insertion point is replaced by the composed block.
\* Every other byte is preserved.
C17_ByteLocality ==
    (SetOptionCalled /\ last.position.some) =>
        IF Existing(last.position)
        THEN KeepsOutside(last.before, content,
                          last.position.value_option[1],
                          last.position.value_option[2])
        ELSE KeepsOutside(last.before, content,
                          last.position.def_option[1]
                              - WhitespaceRun(last.before,
                                              last.position.def_option[1]),
                          last.position.def_option[1])

\* C18: set_option(p, v) leaves every other option untouched: get_option
\* returns the same text, after the call, for every binding q different from
\* p that the locator reported before the call.
C18_OtherOptionsUntouched ==
    (SetOptionCalled /\ last.result = "Ok") =>
        \A q \in Paths \cap BindingPaths(Parse(last.before).node, << >>) :
            (q # last.path /\ get_option(last.before, q).ok) =>
                get_option(content, q) = get_option(last.before, q)

----------------------------------------------------------------------------
(* Properties of the edits as a whole *)

\* C19: every set or clear of the transactional interface is applied at the
\* position the locator gives for the buffer as it is when the edit is
\* applied, never at byte ranges computed before another mutation.
C19_PositionIsCurrent ==
    last.op \in {"Option::set", "Option::set_option_to_default"} =>
        last.position = pos_option_in_file(last.before, last.path)

\* C20: no mutator applies partially: when a call returns an error the
\* buffer is byte-identical to its content before the call.
C20_ErrorLeavesBuffer ==
    (last.op # "none" /\ last.result = "Err") => content = last.before

----------------------------------------------------------------------------
(* Properties of the list calls *)

\* A sequence without the first of its elements equal to e.
RECURSIVE RemoveFirst(_, _)
RemoveFirst(seq, e) ==
    IF seq = << >> THEN << >>
    ELSE IF Head(seq) = e THEN Tail(seq)
         ELSE << Head(seq) >> \o RemoveFirst(Tail(seq), e)

Occurs(seq, e) == \E i \in DOMAIN seq : seq[i] = e

\* C21: remove_in_list on a list of at least two elements removes exactly the
\* first element equal to e: the elements afterwards are the elements before
\* without that one occurrence, the others unchanged and in order, also when
\* e is a substring of an earlier element; with no element equal to e the
\* buffer is unchanged.
C21_RemovesFirstEqual ==
    (last.op = "remove_in_list" /\ last.result = "Ok") =>
        \A old \in {get_elem_in_list(last.before, last.path)} :
            (old.ok /\ Len(old.elems) >= 2) =>
                IF Occurs(old.elems, last.value)
                THEN get_elem_in_list(content, last.path)
                         = [ok |-> TRUE,
                            elems |-> RemoveFirst(old.elems, last.value)]
                ELSE content = last.before

\* A sequence as a multiset: how often each element occurs.
Multiset(seq) ==
    [e \in {seq[i] : i \in DOMAIN seq} |->
        Cardinality({i \in DOMAIN seq : seq[i] = e})]

\* C22: list round trip.  add_in_list (without the uniqueness check)
\* followed by remove_in_list of the same element on the same path leaves a
\* list with the same multiset of elements when the list existed, and leaves
\* the option absent (the locator answers NewInsertion) when it did not.
C22_ListRoundTrip ==
    [][(/\ last.op = "add_in_list" /\ last.result = "Ok"
        /\ last'.op = "remove_in_list" /\ last'.result = "Ok"
        /\ last'.n = last.n + 1
        /\ last'.path = last.path /\ last'.value = last.value
        /\ RootSet(Parse(last.before))
        /\ ~Existing(last.position) \/ get_elem_in_list(last.before,
                                                         last.path).ok) =>
           IF Existing(last.position)
           THEN \A now \in {get_elem_in_list(content', last.path)} :
                    /\ now.ok
                    /\ Multiset(now.elems)
                           = Multiset(get_elem_in_list(last.before,
                                                       last.path).elems)
           ELSE NewInsertion(pos_option_in_file(content', last.path))]_vars

\* C23: set_option_to_default is idempotent: a second call for the same path
\* leaves the buffer of the first call unchanged and reports that nothing
\* was removed, also when the source holds more than one binding the locator
\* can match.
C23_ClearIdempotent ==
    [][(/\ last.op = "set_option_to_default" /\ last.result = "Ok"
        /\ last'.op = "set_option_to_default"
        /\ last'.n = last.n + 1
        /\ last'.path = last.path) =>
           /\ content' = content
           /\ ~set_option_to_default(content, last.path).removed]_vars

----------------------------------------------------------------------------
(* Properties of the transactions, continued *)

\* C24: between attach and commit no edit of the transactional interface
\* changes the bytes of the file on disk or the pristine buffer
\* (file_content_old); an edit changes the current buffer only.
C24_EditsStayInMemory ==
    [][\A t \in Tx : \A f \in Files :
          Edit(t, f) =>
              /\ disk' = disk
              /\ nix'[t][f].file_content_old = nix[t][f].file_content_old
              /\ nix'[t][f].file = nix[t][f].file
              /\ nix'[t][f].off = nix[t][f].off
              /\ nix'[t][f].file_content # nix[t][f].file_content]_vars

\* An attached file has been edited and not yet committed: its buffer differs
\* from the bytes it was attached with, which are still the bytes on disk.
C24_Witness ==
    \E t \in Tx : \E f \in Files :
        /\ git_repo[t]
        /\ f \in list_file[t]
        /\ nix[t][f].file
        /\ pc[t] = "ready"
        /\ nix[t][f].file_content # snap[t][f]
        /\ disk[f] = snap[t][f]

----------------------------------------------------------------------------
(* Properties of the locator, continued *)

RECURSIVE LeafBindings(_, _)
\* The bindings whose value is not an attribute set, each with its full
\* dotted path and its range.
LeafBindings(node, prefix) ==
    UNION {IF node.children[i].value.kind = "NODE_ATTR_SET"
           THEN LeafBindings(node.children[i].value,
                             prefix \o node.children[i].path)
           ELSE {[path |-> prefix \o node.children[i].path,
                  range |-> << node.children[i].start,
                               node.children[i].end >>]}
           : i \in 1 .. Len(node.children)}

\* C25: a binding whose path is a strict prefix of the requested path and
\* whose value is a leaf gives no match: the locator answers NewInsertion at
\* an enclosing set, never Existing on that binding.
C25_NoMatchOnPrefixLeaf ==
    \A t \in {Parse(content)} : RootSet(t) =>
        \A p \in Paths : \A b \in LeafBindings(t.node, << >>) :
            (IsPrefix(b.path, p) /\ b.path # p) =>
                \A pos \in {localise_option(t.node, p)} :
                    ~(Existing(pos) /\ pos.def_option = b.range)

\* The bindings of the root set whose value is a with expression.
WithBindings(node) ==
    {node.children[i] : i \in {j \in 1 .. Len(node.children) :
                                  node.children[j].value.kind = "NODE_WITH"}}

\* C26: for a binding whose path is the requested path and whose value is a
\* with expression wrapping a list (the namespace, then the list), the
\* locator answers Existing with the whole binding as range and the range of
\* the list as value range; a with expression of another shape gives no
\* match.
C26_WithList ==
    \A t \in {Parse(content)} : RootSet(t) =>
        \A c \in WithBindings(t.node) :
            \A pos \in {localise_option(t.node, c.path)} :
                IF c.value.children[2].kind = "NODE_LIST"
                THEN /\ Existing(pos)
                     /\ pos.def_option = << c.start, c.end >>
                     /\ pos.value_option = << c.value.children[2].start,
                                              c.value.children[2].end >>
                ELSE ~(Existing(pos) /\ pos.def_option = << c.start, c.end >>)

----------------------------------------------------------------------------
(* Properties of the transactions, continued: order inside commit() *)

\* C27: the rebuild of a transaction starts only after every file attached
\* to it has been flushed to disk and staged; a git commit is recorded only
\* after a rebuild the transaction ran exited zero, and never by a
\* transaction whose rebuild exited non-zero.
C27_CommitOrder ==
    [][\A t \in Tx :
          /\ Spawn(t) => /\ progress[t].flushed = list_file[t]
                         /\ progress[t].staged = list_file[t]
          /\ (recorded'[t] /\ ~recorded[t]) => progress[t].exit = "zero"
          /\ progress'[t].exit = "nonzero" => ~recorded'[t]]_vars

\* A commit() that flushed and staged a file, ran a rebuild that exited zero
\* and recorded its git commit.
C27_Witness ==
    \E t \in Tx :
        /\ recorded[t]
        /\ list_file[t] # {}
        /\ progress[t].flushed = list_file[t]
        /\ progress[t].staged = list_file[t]
        /\ progress[t].exit = "zero"

\* C28: a transaction writes an attached file on disk only while it holds the
\* exclusive lock of the file: neither the flush of commit() nor the restore
\* of a rollback after a failed rebuild writes a file that another
\* transaction has attached in the meantime.
C28_WritesUnderLock ==
    [][\A t \in Tx : \A f \in Files :
          (Flush(t, f) \/ (pc[t] = "c_rollback" /\ RollbackFile(t, f)))
              => /\ t \in flock[f]
                 /\ \A u \in Tx \ {t} :
                        ~(u \in flock[f] /\ f \in list_file[u])]_vars

----------------------------------------------------------------------------
(* Two transactions attaching several files *)

\* Number of files the attaching transactions share.
NumAttachFiles == 2

AttachFiles == 1 .. NumAttachFiles

\* Two processes, each with a Transaction of its own, over a clean repository
\* that tracks AttachFiles.
InitAttach ==
    /\ disk = [f \in AttachFiles |-> << >>]
    /\ head = disk
    /\ index = disk
    /\ flock = [f \in AttachFiles |-> {}]
    /\ queue = {}
    /\ lock_build = {}
    /\ git_repo = [t \in Tx |-> FALSE]
    /\ list_file = [t \in Tx |-> {}]
    /\ nix = [t \in Tx |-> [f \in AttachFiles |-> NewNixFile]]
    /\ pc = [t \in Tx |-> "ready"]
    /\ todo = [t \in Tx |-> {}]
    /\ arg = [t \in Tx |-> 0]
    /\ success = [t \in Tx |-> FALSE]
    /\ ret = [t \in Tx |-> "none"]
    /\ snap = [t \in Tx |-> [f \in AttachFiles |-> << >>]]
    /\ recorded = [t \in Tx |-> FALSE]
    /\ skipped = [t \in Tx |-> FALSE]
    /\ pending = {}
    /\ ncalls = [t \in Tx |-> 0]
    /\ progress = [t \in Tx |-> NoProgress]
    /\ content = << >>
    /\ options = {}
    /\ last = NoCall

\* begin(), attach_on_transaction() in any order of the files, and the end of
\* the objects.
NextAttach ==
    \E t \in Tx :
        \/ Begin(t)
        \/ AttachLock(t)
        \/ AttachLockFail(t)
        \/ Drop(t)
        \/ \E f \in AttachFiles :
            \/ AttachNotBegun(t, f)
            \/ AttachCall(t, f)

SpecAttach == InitAttach /\ [][NextAttach]_vars

\* A process that can go on does go on: a lock that stays free is taken by the
\* process blocked on it, and every process ends after its last call, which
\* closes its handles.  Nothing forces a call to fail.
FairAttach ==
    \A t \in Tx : WF_vars(AttachLock(t)) /\ WF_vars(Drop(t))

SpecAttachFair == SpecAttach /\ FairAttach

----------------------------------------------------------------------------
(* Properties of the transactions: termination of the calls *)

\* C29: no set of concurrently running transactions can deadlock: every
\* attach_on_transaction() that has entered File::lock eventually leaves it,
\* whatever the order in which the transactions attach the files.
C29_AttachReturns ==
    \A t \in Tx : (pc[t] = "a_lock") ~> (pc[t] # "a_lock")

----------------------------------------------------------------------------
(* Properties of the transactions: the repository after a failed commit *)

\* C30: when commit() of a transaction returns InvalidFile (the rebuild it ran
\* failed and its files were rolled back, or the tree did not become clean)
\* and no other transaction has made any call, HEAD, the index and the working
\* tree agree again: nothing of the failed transaction is left staged or
\* modified, and a following begin() does not return GitNotCommitted.
C30_FailedCommitLeavesClean ==
    [][\A t \in Tx :
          (/\ CommitReturns(t, "InvalidFile")
           /\ \A u \in Tx \ {t} : ncalls[u] = 0)
              => StatusIsEmpty']_vars

============================================================================
